---- MODULE Spec2Model ----
(***************************************************************************)
(* Model of tools/admin/app.py, the local admin backend of the blog.       *)
(*                                                                         *)
(* Text is modelled as a sequence of atoms.  A path is a sequence of       *)
(* characters ("/", ".", letters); where a name never takes part in a      *)
(* prefix test it is kept as one atom ("_posts").                          *)
(***************************************************************************)
EXTENDS Naturals, Sequences, FiniteSets, TLC

VARIABLES
    sp,         \* the last safe_path call: its arguments and its outcome
    files,      \* the markdown files on disk: resolved path -> text
    oplog,      \* the filesystem operations of the last handler, in order
    post_req,   \* the last request to a post handler
    post_resp,  \* its response
    layout,     \* the profile layouts on disk: lang -> text
    prof,       \* the profile editor's exchange with the profile handlers
    config_yml, \* the text of _config.yml
    contact_yml,\* the text of _data/contact.yml
    side_req,   \* the last sidebar save: its data and the texts before it
    assets,     \* the files under assets/: resolved path -> content
    upload,     \* the last asset upload: its request and its response
    git         \* the repository, the git commands run and the last request

pathVars == <<sp>>
postVars == <<files, oplog, post_req, post_resp>>
sideVars == <<config_yml, contact_yml, side_req>>
profVars == <<layout, prof>>
vars == <<sp, files, oplog, post_req, post_resp, layout, prof, config_yml,
          contact_yml, side_req, assets, upload, git>>


-----------------------------------------------------------------------------
(* Generic helpers on sequences                                            *)

SeqsUpTo(S, n) == UNION {[1..k -> S] : k \in 0..n}

StartsWith(s, pre) ==
    /\ Len(pre) <= Len(s)
    /\ SubSeq(s, 1, Len(pre)) = pre

\* sub in s, for strings
Contains(s, sub) ==
    \E i \in 1..(Len(s) + 1) :
        i + Len(sub) - 1 <= Len(s) /\ SubSeq(s, i, i + Len(sub) - 1) = sub

-----------------------------------------------------------------------------
(* Python's re on sequences of atoms.  A pattern is a sequence of elements: *)
(* one atom of a class, a greedy or lazy repetition of a class, a group    *)
(* boundary, a line anchor (re.MULTILINE) or an alternation.  Matching     *)
(* backtracks in the order the re module does: greedy repetitions from the *)
(* longest run down, lazy ones from the shortest up, alternatives left to  *)
(* right, start positions left to right.                                   *)

NL == "\n"

\* a class of atoms: the atoms of set, or (neg) every atom but those
InClass(tok, c) == (tok \in c.set) # c.neg

Elem(k, c, g, a, b) == [k |-> k, c |-> c, g |-> g, a |-> a, b |-> b]
NoClass == [neg |-> FALSE, set |-> {}]
One(c)      == Elem("one", c, 0, <<>>, <<>>)
Star(c)     == Elem("star", c, 0, <<>>, <<>>)
Plus(c)     == Elem("plus", c, 0, <<>>, <<>>)
LazyStar(c) == Elem("lazystar", c, 0, <<>>, <<>>)
LazyPlus(c) == Elem("lazyplus", c, 0, <<>>, <<>>)
Open(g)     == Elem("open", NoClass, g, <<>>, <<>>)
Close(g)    == Elem("close", NoClass, g, <<>>, <<>>)
Bol         == Elem("bol", NoClass, 0, <<>>, <<>>)
Eol         == Elem("eol", NoClass, 0, <<>>, <<>>)
Alt(a, b)   == Elem("alt", NoClass, 0, a, b)

Lit(x)   == One([neg |-> FALSE, set |-> {x}])
OneOf(S) == One([neg |-> FALSE, set |-> S])
\* the atoms that are whitespace: a blank, a newline, and the indentation
\* runs of the page skeletons
Ind == (2 :> "  ") @@ (4 :> "    ") @@ (6 :> "      ") @@ (8 :> "        ")
           @@ (10 :> "          ")
Whitespace == {" ", NL} \cup {Ind[n] : n \in DOMAIN Ind}

\* \s
WsClass  == [neg |-> FALSE, set |-> Whitespace]
\* . without re.DOTALL
DotClass == [neg |-> TRUE, set |-> {NL}]
\* . with re.DOTALL
AnyClass == [neg |-> TRUE, set |-> {}]

NoMatch == [ok |-> FALSE, start |-> 0, end |-> 0, caps |-> <<>>]
NoCaps  == [g \in 1..3 |-> <<0, 0>>]

\* the length of the run of atoms of class c that starts at lo, within lo..hi
RECURSIVE RunIn(_, _, _, _)
RunIn(seq, lo, hi, c) ==
    IF lo > hi THEN 0
    ELSE IF lo = hi THEN (IF InClass(seq[lo], c) THEN 1 ELSE 0)
    ELSE LET mid == (lo + hi) \div 2
             l   == RunIn(seq, lo, mid, c)
         IN  IF l = mid - lo + 1 THEN l + RunIn(seq, mid + 1, hi, c) ELSE l

\* the length of the longest run of atoms of class c from pos
RunLen(seq, pos, c) == RunIn(seq, pos, Len(seq), c)

RECURSIVE MatchAt(_, _, _, _)
RECURSIVE TryCounts(_, _, _, _, _, _, _)

\* the repetition takes a number of atoms in lo..hi and the rest of the
\* pattern follows: the counts are tried from lo up (step = 1, lazy) or from
\* hi down (step = 0, greedy), and the first that lets the rest match wins
TryCounts(rest, seq, pos, caps, lo, hi, step) ==
    IF lo > hi THEN NoMatch
    ELSE IF lo = hi THEN MatchAt(rest, seq, pos + lo, caps)
    ELSE LET mid == (lo + hi) \div 2
         IN  IF step = 1
             THEN LET r == TryCounts(rest, seq, pos, caps, lo, mid, step)
                  IN  IF r.ok THEN r
                      ELSE TryCounts(rest, seq, pos, caps, mid + 1, hi, step)
             ELSE LET r == TryCounts(rest, seq, pos, caps, mid + 1, hi, step)
                  IN  IF r.ok THEN r
                      ELSE TryCounts(rest, seq, pos, caps, lo, mid, step)

\* the pattern matched from position pos on
MatchAt(pat, seq, pos, caps) ==
    IF pat = <<>> THEN [ok |-> TRUE, start |-> 0, end |-> pos, caps |-> caps]
    ELSE LET e    == Head(pat)
             rest == Tail(pat)
         IN  CASE e.k = "one" ->
                    IF pos <= Len(seq) /\ InClass(seq[pos], e.c)
                    THEN MatchAt(rest, seq, pos + 1, caps) ELSE NoMatch
               [] e.k = "open" ->
                    MatchAt(rest, seq, pos, [caps EXCEPT ![e.g] = <<pos, pos>>])
               [] e.k = "close" ->
                    MatchAt(rest, seq, pos, [caps EXCEPT ![e.g] = <<@[1], pos>>])
               [] e.k = "bol" ->
                    IF pos = 1 \/ seq[pos - 1] = NL
                    THEN MatchAt(rest, seq, pos, caps) ELSE NoMatch
               [] e.k = "eol" ->
                    IF pos = Len(seq) + 1 \/ seq[pos] = NL
                    THEN MatchAt(rest, seq, pos, caps) ELSE NoMatch
               [] e.k = "star" ->
                    TryCounts(rest, seq, pos, caps, 0, RunLen(seq, pos, e.c), 0)
               [] e.k = "plus" ->
                    TryCounts(rest, seq, pos, caps, 1, RunLen(seq, pos, e.c), 0)
               [] e.k = "lazystar" ->
                    TryCounts(rest, seq, pos, caps, 0, RunLen(seq, pos, e.c), 1)
               [] e.k = "lazyplus" ->
                    TryCounts(rest, seq, pos, caps, 1, RunLen(seq, pos, e.c), 1)
               [] e.k = "alt" ->
                    LET r == MatchAt(e.a \o rest, seq, pos, caps)
                    IN  IF r.ok THEN r ELSE MatchAt(e.b \o rest, seq, pos, caps)

\* the match at the leftmost position of lo..hi that has one
RECURSIVE SearchIn(_, _, _, _)
SearchIn(pat, seq, lo, hi) ==
    IF lo > hi THEN NoMatch
    ELSE IF lo = hi
         THEN LET r == MatchAt(pat, seq, lo, NoCaps)
              IN  IF r.ok THEN [r EXCEPT !.start = lo] ELSE NoMatch
    ELSE LET mid == (lo + hi) \div 2
             r   == SearchIn(pat, seq, lo, mid)
         IN  IF r.ok THEN r ELSE SearchIn(pat, seq, mid + 1, hi)

\* re.search from position pos: the leftmost match
SearchFrom(pat, seq, pos) == SearchIn(pat, seq, pos, Len(seq) + 1)

re_search(pat, seq) == SearchFrom(pat, seq, 1)

\* m.group(g)
Group(seq, m, g) == SubSeq(seq, m.caps[g][1], m.caps[g][2] - 1)

-----------------------------------------------------------------------------
(* os.path as used by the helpers: join, and realpath on a tree without    *)
(* symbolic links (normalisation of an absolute path).                     *)

Sep == "/"

RECURSIVE SplitFrom(_, _, _, _)
SplitFrom(p, i, cur, acc) ==
    IF i > Len(p) THEN Append(acc, cur)
    ELSE IF p[i] = Sep THEN SplitFrom(p, i + 1, <<>>, Append(acc, cur))
    ELSE SplitFrom(p, i + 1, Append(cur, p[i]), acc)

\* p.split('/'): the components between separators, empty ones included
SplitPath(p) == SplitFrom(p, 1, <<>>, <<>>)

RECURSIVE ResolveComps(_, _, _)
ResolveComps(comps, i, stack) ==
    IF i > Len(comps) THEN stack
    ELSE LET c == comps[i] IN
         IF c = <<>> \/ c = <<".">> THEN ResolveComps(comps, i + 1, stack)
         ELSE IF c = <<".", ".">>
              THEN ResolveComps(comps, i + 1,
                       IF stack = <<>> THEN stack
                       ELSE SubSeq(stack, 1, Len(stack) - 1))
              ELSE ResolveComps(comps, i + 1, Append(stack, c))

RECURSIVE JoinComps(_, _)
JoinComps(comps, i) ==
    IF i > Len(comps) THEN <<>>
    ELSE <<Sep>> \o comps[i] \o JoinComps(comps, i + 1)

\* the components of the resolved absolute path
RealComps(p) == ResolveComps(SplitPath(p), 1, <<>>)

\* os.path.realpath of an absolute path
realpath(p) ==
    LET comps == RealComps(p)
    IN  IF comps = <<>> THEN <<Sep>> ELSE JoinComps(comps, 1)

\* os.path.join(a, b)
os_path_join(a, b) ==
    IF b # <<>> /\ b[1] = Sep THEN b
    ELSE IF a = <<>> \/ a[Len(a)] = Sep THEN a \o b
    ELSE a \o <<Sep>> \o b

safe_path_nosep(requested, allowed_base) ==
    LET abs_base   == realpath(allowed_base)
        abs_target == realpath(os_path_join(allowed_base, requested))
    IN  IF ~StartsWith(abs_target, abs_base) /\ abs_target # abs_base
        THEN [status |-> 403, path |-> <<>>]
        ELSE [status |-> 200, path |-> abs_target]

\* safe_path(requested, allowed_base): abort(403) or the resolved target
safe_path(requested, allowed_base) ==
    LET abs_base   == realpath(allowed_base)
        abs_target == realpath(os_path_join(allowed_base, requested))
    IN  IF ~StartsWith(abs_target, abs_base \o <<Sep>>) /\ abs_target # abs_base
        THEN [status |-> 403, path |-> <<>>]
        ELSE [status |-> 200, path |-> abs_target]

-----------------------------------------------------------------------------
(* Path safety: the inputs of the check                                    *)

MaxReqLen == 5

PathChars == {"/", ".", "a", "b"}

\* base directories a handler passes: a directory and one beneath it
PathBases == { <<"/", "a">>, <<"/", "a", "/", "b">> }

\* a handler is about to resolve a request path against its base directory
SpPending(requested, base) ==
    [called |-> FALSE, requested |-> requested, base |-> base,
     status |-> 0, path |-> <<>>]

\* the call itself
SafePathCall ==
    /\ ~sp.called
    /\ LET r == safe_path(sp.requested, sp.base)
       IN  sp' = [sp EXCEPT !.called = TRUE, !.status = r.status,
                            !.path = r.path]

SpIdle == SpPending(<<>>, <<>>)

InitPath ==
    /\ \E requested \in SeqsUpTo(PathChars, MaxReqLen), base \in PathBases :
           sp = SpPending(requested, base)
    /\ files = << >> /\ oplog = <<>>
    /\ post_req = [op |-> "none"] /\ post_resp = [status |-> 0]
    /\ config_yml = <<>> /\ contact_yml = <<>> /\ side_req = [op |-> "none"]
    /\ layout = << >> /\ prof = [phase |-> "none"]
    /\ assets = << >> /\ upload = [op |-> "none"] /\ git = [op |-> "none"]

NextPath == SafePathCall /\ UNCHANGED <<postVars, sideVars, profVars, assets, upload, git>>

SpecPath == InitPath /\ [][NextPath]_vars

\* component-wise containment: base's components are a prefix of target's
CompsWithin(target, base) == StartsWith(RealComps(target), RealComps(base))

\* C3: safe_path returns a resolved path that is the base or lies beneath
\* it, or rejects with 403; a resolution outside the base (a parent, an
\* absolute path elsewhere, a sibling whose name starts with the base's
\* name) is always rejected.
C3_SafePathContained ==
    sp.called =>
        LET target == os_path_join(sp.base, sp.requested)
        IN  /\ sp.status \in {200, 403}
            /\ sp.status = 200 =>
                   /\ sp.path = realpath(target)
                   /\ CompsWithin(sp.path, sp.base)
            /\ ~CompsWithin(target, sp.base) => sp.status = 403

\* a sibling directory sharing the base's name as a prefix is rejected
C3_Witness ==
    /\ sp.called
    /\ sp.base = <<"/", "a">>
    /\ realpath(os_path_join(sp.base, sp.requested)) = <<"/", "a", "b">>
    /\ sp.status = 403

-----------------------------------------------------------------------------
(* Text Model Codec: python-frontmatter as save_post and parse_post use it. *)
(* A document's text is its YAML block "fm" (the metadata mapping, which   *)
(* yaml dumps and loads key by key) and "rest", the characters after the   *)
(* closing "---" delimiter.                                                *)

RECURSIVE lstrip(_)
lstrip(s) ==
    IF s # <<>> /\ Head(s) \in Whitespace THEN lstrip(Tail(s)) ELSE s

RECURSIVE rstrip(_)
rstrip(s) ==
    IF s # <<>> /\ s[Len(s)] \in Whitespace
    THEN rstrip(SubSeq(s, 1, Len(s) - 1)) ELSE s

\* str.strip()
strip(s) == lstrip(rstrip(s))

\* frontmatter.dumps(post): "---\n{metadata}\n---\n\n{content}\n".strip()
frontmatter_dumps(post) ==
    [fm |-> post.metadata,
     rest |-> rstrip(<<"\n", "\n">> \o post.content \o <<"\n">>)]

\* frontmatter.loads(text): the text is stripped, split at the delimiters,
\* and the content after them is stripped again
frontmatter_loads(text) ==
    [metadata |-> text.fm, content |-> strip(rstrip(text.rest))]

\* metadata.get(key, default)
MetaGet(metadata, key, default) ==
    IF key \in DOMAIN metadata THEN metadata[key] ELSE default

-----------------------------------------------------------------------------
(* Posts on disk                                                           *)

BLOG_ROOT == <<"/", "blog">>
POSTS_DIR == os_path_join(BLOG_ROOT, <<"_posts">>)
DRAFTS_DIR == os_path_join(BLOG_ROOT, <<"_drafts">>)

\* the directories that exist (save_post creates its target directory)
Dirs == {BLOG_ROOT, POSTS_DIR, DRAFTS_DIR}

\* str(date.today())
Today == "2024-01-03"

\* atoms of the form \d{4}-\d{2}-\d{2}
DateAtoms == {Today}

\* the characters of [a-zA-Z0-9_-]
SlugChars == {"a", "b", "-"}

\* os.path.dirname and os.path.basename of a resolved path
dirname(p) ==
    LET c == RealComps(p)
    IN  IF Len(c) <= 1 THEN <<Sep>> ELSE JoinComps(SubSeq(c, 1, Len(c) - 1), 1)

basename(p) == LET c == SplitPath(p) IN c[Len(c)]

\* os.path.relpath(p, BLOG_ROOT) for a path beneath BLOG_ROOT
relpath(p) == SubSeq(realpath(p), Len(BLOG_ROOT) + 2, Len(realpath(p)))

isfile(p) == realpath(p) \in DOMAIN files

\* parse_post(filepath): metadata and body from the text, date and slug
\* from the filename
parse_post(filepath) ==
    LET post     == frontmatter_loads(files[realpath(filepath)])
        filename == basename(filepath)
        match    == /\ Len(filename) >= 4
                    /\ filename[1] \in DateAtoms
                    /\ filename[2] = "-"
                    /\ filename[Len(filename)] = ".md"
        stem     == IF filename # <<>> /\ filename[Len(filename)] = ".md"
                    THEN SubSeq(filename, 1, Len(filename) - 1)
                    ELSE filename
    IN  [path       |-> relpath(filepath),
         filename   |-> filename,
         date       |-> IF match THEN <<filename[1]>> ELSE <<Today>>,
         slug       |-> IF match THEN SubSeq(filename, 3, Len(filename) - 1)
                        ELSE stem,
         title      |-> MetaGet(post.metadata, "title", ""),
         tags       |-> MetaGet(post.metadata, "tags", <<>>),
         categories |-> MetaGet(post.metadata, "categories", <<>>),
         is_draft   |-> Contains(realpath(filepath), DRAFTS_DIR),
         body       |-> post.content]

SlugValid_nonempty(slug) == slug # <<>>

\* slug and re.match(r'^[a-zA-Z0-9_-]+$', slug)
SlugValid(slug) ==
    /\ slug # <<>>
    /\ \A i \in 1..Len(slug) : slug[i] \in SlugChars

\* the front matter save_post builds: tags and categories only when non-empty
BuildMeta(data) ==
    LET m0 == [title |-> data.title]
        m1 == IF data.tags # <<>> THEN m0 @@ [tags |-> data.tags] ELSE m0
    IN  IF data.categories # <<>>
        THEN m1 @@ [categories |-> data.categories] ELSE m1

\* save_post(data, original_path), on the files fs; io_ok tells whether the
\* open/write of the destination succeeds.  original_path = <<>> is None.
\* Yields the status, the returned path, the files afterwards and the
\* filesystem operations in the order the code issues them.
save_post(data, original_path, fs, io_ok) ==
    LET slug       == strip(data.slug)
        target_dir == IF data.is_draft THEN DRAFTS_DIR ELSE POSTS_DIR
        filename   == data.date \o <<"-">> \o slug \o <<".md">>
        dest       == os_path_join(target_dir, filename)
        real_dest  == realpath(dest)
        post       == [content |-> data.body, metadata |-> BuildMeta(data)]
        old_abs    == os_path_join(BLOG_ROOT, original_path)
        real_old   == realpath(old_abs)
        removes    == /\ original_path # <<>>
                      /\ real_old # real_dest
                      /\ real_old \in DOMAIN fs
        fs1        == IF removes
                      THEN [q \in DOMAIN fs \ {real_old} |-> fs[q]]
                      ELSE fs
        log1       == IF removes
                      THEN <<[op |-> "remove", path |-> real_old]>>
                      ELSE <<>>
        written    == io_ok /\ dirname(dest) \in Dirs
        text       == LET d == frontmatter_dumps(post)
                      IN  [d EXCEPT !.rest = d.rest \o <<"\n">>]
    IN  IF ~SlugValid(slug)
        THEN [status |-> 400, path |-> <<>>, fs |-> fs, log |-> <<>>]
        ELSE IF ~written
        THEN [status |-> 500, path |-> <<>>, fs |-> fs1,
              log |-> Append(log1, [op |-> "write_failed", path |-> real_dest])]
        ELSE [status |-> 200, path |-> relpath(real_dest),
              fs |-> (real_dest :> text) @@ fs1,
              log |-> Append(log1, [op |-> "write", path |-> real_dest])]

-----------------------------------------------------------------------------
(* Config Patch Engine: api_save_sidebar on _config.yml and contact.yml    *)

\* re.sub(pat, repl, text, count=1) for the two templates of the handler,
\* r'\g<1>' + value and (with_rest) r'\g<1>' + value + r' \2': the leftmost
\* match is replaced by the expanded template
re_sub_first(pat, text, value, with_rest) ==
    LET m == re_search(pat, text)
    IN  IF ~m.ok THEN text
        ELSE SubSeq(text, 1, m.start - 1)
                 \o Group(text, m, 1) \o value
                 \o (IF with_rest THEN <<" ">> \o Group(text, m, 2) ELSE <<>>)
                 \o SubSeq(text, m.end, Len(text))

\* r'^(<key>\s*).*$'
TopKeyPattern(key) ==
    <<Bol, Open(1), Lit(key), Star(WsClass), Close(1), Star(DotClass), Eol>>

\* r'^(\s*<key>\s*).*?(#.*<fragment>.*)$'
CommentedKeyPattern(key, fragment) ==
    <<Bol, Open(1), Star(WsClass), Lit(key), Star(WsClass), Close(1),
      LazyStar(DotClass),
      Open(2), Lit("#"), Star(DotClass), Lit(fragment), Star(DotClass), Close(2),
      Eol>>

\* r'^(\s*name:\s*).*?(#.*|$)'
NamePattern ==
    <<Bol, Open(1), Star(WsClass), Lit("name:"), Star(WsClass), Close(1),
      LazyStar(DotClass),
      Open(2), Alt(<<Lit("#"), Star(DotClass)>>, <<Eol>>), Close(2)>>

\* r'\g<1>' + value
sub_top(key, value, text) ==
    re_sub_first(TopKeyPattern(key), text, value, FALSE)

\* r'\g<1>' + value + r' \2'
sub_commented(pat, value, text) ==
    re_sub_first(pat, text, value, TRUE)

\* the seven substitutions of api_save_sidebar, in the order of the code
patch_config(text, data) ==
    LET l1 == sub_top("title:", data.title, text)
        l2 == sub_top("tagline:", data.tagline, l1)
        l3 == sub_top("avatar:", data.avatar, l2)
        l4 == sub_commented(
                  CommentedKeyPattern("username:", "change to your github"),
                  data.github_username, l3)
        l5 == sub_commented(
                  CommentedKeyPattern("username:", "change to your twitter"),
                  data.twitter_username, l4)
        l6 == sub_commented(NamePattern, data.social_name, l5)
    IN  sub_commented(CommentedKeyPattern("email:", "change to your email"),
                      data.social_email, l6)

\* data.get('contact_yml', ''): '' when the key is absent
contact_of(data) ==
    IF data.contact_yml.given = "absent"
    THEN [given |-> "text", text |-> <<>>]
    ELSE data.contact_yml

\* the contact file after the save: written unless the value is None
contact_after(data, old) ==
    IF contact_of(data).given # "null" THEN contact_of(data).text ELSE old

MaxConfigLines == 3

\* the lines a _config.yml is made of here
ConfigLines ==
    { <<"title:", " ", "x", " ", "#", " ", "x">>,
      <<"title:">>,
      <<"#", " ", "x">>,
      <<"other:", " ", "x">>,
      <<" ", " ", "username:", " ", "x", " ", "#", " ", "change to your github">>,
      <<" ", " ", "username:", " ", "x", " ", "#", " ", "change to your twitter">>,
      <<" ", " ", "name:", " ", "x">>,
      <<" ", " ", "email:", " ", "x", " ", "#", " ", "change to your email">>,
      <<"avatar:", " ", "x">>,
      <<"tagline:", " ", "x">> }

RECURSIVE JoinLines(_)
JoinLines(ls) ==
    IF ls = <<>> THEN <<>> ELSE Head(ls) \o <<NL>> \o JoinLines(Tail(ls))

SideValues == { <<>>, <<"y">> }

SideData ==
    [title : SideValues, tagline : {<<"y">>}, avatar : {<<"y">>},
     github_username : SideValues, twitter_username : {<<"y">>},
     social_name : SideValues, social_email : {<<"y">>},
     contact_yml : { [given |-> "absent", text |-> <<>>],
                     [given |-> "null", text |-> <<>>],
                     [given |-> "text", text |-> <<"k:", " ", "y", NL>>] }]

NoSideReq == [op |-> "none"]

SideIdle ==
    /\ config_yml = <<>>
    /\ contact_yml = <<>>
    /\ side_req = NoSideReq

\* PUT /api/pages/sidebar
api_save_sidebar ==
    /\ side_req.op = "none"
    /\ \E data \in SideData :
        /\ config_yml' = patch_config(config_yml, data)
        /\ contact_yml' = contact_after(data, contact_yml)
        /\ side_req' = [op |-> "save", data |-> data,
                        config_before |-> config_yml,
                        contact_before |-> contact_yml]
    /\ UNCHANGED <<pathVars, postVars, profVars, assets, upload, git>>

InitSidebar ==
    /\ \E ls \in SeqsUpTo(ConfigLines, MaxConfigLines) :
           config_yml = JoinLines(ls)
    /\ contact_yml = <<"k:", " ", "x", NL>>
    /\ side_req = NoSideReq
    /\ sp = SpIdle
    /\ files = << >> /\ oplog = <<>>
    /\ post_req = [op |-> "none"] /\ post_resp = [status |-> 0]
    /\ layout = << >> /\ prof = [phase |-> "none"]
    /\ assets = << >> /\ upload = [op |-> "none"] /\ git = [op |-> "none"]

NextSidebar == api_save_sidebar

SpecSidebar == InitSidebar /\ [][NextSidebar]_vars

\* text.split('\n')
RECURSIVE LinesFrom(_, _, _, _)
LinesFrom(text, i, cur, acc) ==
    IF i > Len(text) THEN Append(acc, cur)
    ELSE IF text[i] = NL THEN LinesFrom(text, i + 1, <<>>, Append(acc, cur))
    ELSE LinesFrom(text, i + 1, Append(cur, text[i]), acc)

Lines(text) == LinesFrom(text, 1, <<>>, <<>>)

\* the anchors of the seven substitutions and the request field of each
SideAnchors ==
    << [pat |-> TopKeyPattern("title:"), field |-> "title"],
       [pat |-> TopKeyPattern("tagline:"), field |-> "tagline"],
       [pat |-> TopKeyPattern("avatar:"), field |-> "avatar"],
       [pat |-> CommentedKeyPattern("username:", "change to your github"),
        field |-> "github_username"],
       [pat |-> CommentedKeyPattern("username:", "change to your twitter"),
        field |-> "twitter_username"],
       [pat |-> NamePattern, field |-> "social_name"],
       [pat |-> CommentedKeyPattern("email:", "change to your email"),
        field |-> "social_email"] >>

\* the line, taken alone, matches the anchor
LineMatches(line, pat) == MatchAt(pat, line, 1, NoCaps).ok

AnchoredLine(line) ==
    \E k \in DOMAIN SideAnchors : LineMatches(line, SideAnchors[k].pat)

\* C5: the config patch keeps the number of lines and leaves every line
\* that matches none of the key anchors exactly as it was, also when an
\* anchored key has an empty value and another line follows it.
C5_OtherLinesUntouched ==
    side_req.op = "save" =>
        LET before == Lines(side_req.config_before)
            after  == Lines(config_yml)
        IN  /\ Len(after) = Len(before)
            /\ \A i \in DOMAIN before :
                   ~AnchoredLine(before[i]) => after[i] = before[i]

\* a line as key part (indentation, key, blanks), value, and the rest (the
\* blanks and the comment after the value)
KeyLinePattern ==
    <<Open(1), Star(WsClass),
      OneOf({"title:", "tagline:", "avatar:", "username:", "name:", "email:"}),
      Star(WsClass), Close(1), LazyStar(DotClass),
      Open(2), Alt(<<Star(WsClass), Lit("#"), Star(DotClass)>>, <<>>), Close(2),
      Eol>>

\* the line with only its value replaced
WithValue(line, value) ==
    LET m == MatchAt(KeyLinePattern, line, 1, NoCaps)
    IN  Group(line, m, 1) \o value \o Group(line, m, 2)

\* the first line matching the anchor, 0 when there is none
FirstMatching(ls, pat) ==
    IF \E i \in DOMAIN ls : LineMatches(ls[i], pat)
    THEN CHOOSE i \in DOMAIN ls :
             /\ LineMatches(ls[i], pat)
             /\ \A j \in 1..(i - 1) : ~LineMatches(ls[j], pat)
    ELSE 0

rstrip_blanks(line) ==
    IF line # <<>> /\ line[Len(line)] = " "
    THEN SubSeq(line, 1, Len(line) - 1) ELSE line

\* C6: each substitution changes only the value of the first line its
\* anchor matches: key part and trailing comment stay, the value becomes
\* the supplied one, later lines matching the same anchor are untouched.
\* (A blank at the end of the rewritten line is not counted.)
C6_OnlyValueRewritten ==
    side_req.op = "save" =>
        LET before == Lines(side_req.config_before)
            after  == Lines(config_yml)
        IN  /\ Len(after) = Len(before)
            /\ \A k \in DOMAIN SideAnchors :
                   LET i == FirstMatching(before, SideAnchors[k].pat)
                   IN  i # 0 =>
                         /\ rstrip_blanks(after[i]) =
                                rstrip_blanks(WithValue(before[i],
                                    side_req.data[SideAnchors[k].field]))
                         /\ \A j \in DOMAIN before :
                                (j # i /\ LineMatches(before[j], SideAnchors[k].pat))
                                    => after[j] = before[j]

\* C7: the contact document becomes exactly the supplied text when the
\* request carries it and is left as it was when the request does not.
C7_ContactOverwrittenWhenGiven ==
    side_req.op = "save" =>
        IF side_req.data.contact_yml.given = "text"
        THEN contact_yml = side_req.data.contact_yml.text
        ELSE contact_yml = side_req.contact_before

-----------------------------------------------------------------------------
(* Page Template Engine: _save_profile and _parse_profile.  A layout is a  *)
(* sequence of atoms: each tag and each directive of the skeleton is one   *)
(* atom, text is made of short atoms.                                      *)

\* the tags and comments of the skeleton, each one atom
Tag ==
    [h1_open        |-> "<h1 class=\"mt-0 mb-1\">",
     h1_close       |-> "</h1>",
     span_name_en   |-> "<span class=\"profile-name-en\">",
     span_muted     |-> "<span class=\"text-muted\">",
     span_active    |-> "<span class=\"lang-active\">",
     span_close     |-> "</span>",
     p_affiliation  |-> "<p class=\"profile-affiliation mb-1\">",
     p_bio          |-> "<p class=\"profile-bio text-muted\">",
     p_keywords     |-> "<p class=\"profile-keywords\">",
     p_thesis       |-> "<p class=\"text-muted fst-italic\">",
     p_close        |-> "</p>",
     br             |-> "<br>",
     li_open        |-> "<li>",
     li_close       |-> "</li>",
     a_close        |-> "</a>",
     thesis_mark    |-> "<!-- Thesis -->",
     div_section    |-> "<div class=\"profile-section\">",
     div_close      |-> "</div>",
     h2_open        |-> "<h2 class=\"profile-section-title\">",
     h2_close       |-> "</h2>",
     ul_open        |-> "<ul class=\"profile-list\">",
     ul_close       |-> "</ul>",
     a_home         |-> "<a href=\"/\" class=\"lang-inactive\">",
     a_ko           |-> "<a href=\"/ko/\" class=\"lang-inactive\">",
     a_pubs         |-> "<a href=\"/publications/\" class=\"profile-see-all\">",
     a_blog         |-> "<a href=\"/blog/\" class=\"profile-see-all\">",
     a_cv           |-> "<a href=\"/assets/docs/cv.pdf\" title=\"CV (PDF)\">",
     lang_mark      |-> "<!-- Language switch -->",
     div_lang       |-> "<div class=\"lang-switch\">",
     header_mark    |-> "<!-- Header -->",
     div_header     |-> "<div class=\"profile-header mb-4\">",
     interests_mark |-> "<!-- Research Interests -->",
     pubs_mark      |-> "<!-- Recent Publications -->",
     posts_mark     |-> "<!-- Latest Posts -->",
     article        |-> "<article class=\"px-1\">",
     article_close  |-> "</article>"]

Liquid_unlimited ==
    [include_lang   |-> "{% include lang.html %}",
     assign_posts   |-> "{% assign recent_posts = site.posts %}",
     for_posts      |-> "{% for post in recent_posts %}",
     endfor         |-> "{% endfor %}",
     post_title     |-> "{{ post.title }}",
     post_date      |-> "{{ post.date | date: \"%Y.%m\" }}"]

\* the Liquid directives of the skeleton, each one atom
Liquid ==
    [include_lang   |-> "{% include lang.html %}",
     assign_posts   |-> "{% assign recent_posts = site.posts | where_exp: 'item', 'item.hidden != true' %}",
     for_posts      |-> "{% for post in recent_posts limit: 3 %}",
     endfor         |-> "{% endfor %}",
     post_title     |-> "{{ post.title }}",
     post_date      |-> "{{ post.date | date: \"%Y.%m\" }}"]

POST_URL == "{{ post.url | relative_url }}"

\* the hrefs that occur: of publications, and the one of the posts loop
GITHUB_URL == "https://github.com/u"
Urls == {"u", GITHUB_URL, POST_URL}

\* <a href="{url}">
AHref(url) == "<a href=\"" \o url \o "\">"

\* the anchors that carry nothing but an href
PlainAnchors == {AHref(u) : u \in Urls}

HrefOf(atom) == CHOOSE u \in Urls : AHref(u) = atom

\* the href of a link to the CV
CV_PATH == "/assets/docs/cv.pdf"

\* every atom that contains "<"
TagAtoms == {Tag[k] : k \in DOMAIN Tag} \cup PlainAnchors

\* [^<]
NotLtClass == [neg |-> TRUE, set |-> TagAtoms]

\* the atoms that start with "<span" and those that start with "<p"
SpanOpens == {Tag.span_name_en, Tag.span_muted, Tag.span_active}
POpens    == {Tag.p_affiliation, Tag.p_bio, Tag.p_keywords, Tag.p_thesis}

\* _extract(pattern): group 1 of the first match, stripped, or ''
extract(pat, content) ==
    LET m == re_search(pat, content)
    IN  IF m.ok THEN strip(Group(content, m, 1)) ELSE <<>>

\* the patterns of _parse_profile
Pat ==
    [\* r'<h1[^>]*>([^<]+)<span'
     name_primary |->
        <<Lit(Tag.h1_open), Open(1), Plus(NotLtClass), Close(1),
          OneOf(SpanOpens)>>,
     \* r'class="profile-name-en"[^>]*>/\s*(.+?)</span>'
     name_secondary |->
        <<Lit(Tag.span_name_en), Lit("/"), Star(WsClass), Open(1),
          LazyPlus(AnyClass), Close(1), Lit(Tag.span_close)>>,
     \* r'class="profile-affiliation[^"]*"[^>]*>(.+?)</p>'
     affiliation |->
        <<Lit(Tag.p_affiliation), Open(1), LazyPlus(AnyClass), Close(1),
          Lit(Tag.p_close)>>,
     \* r'class="profile-bio[^"]*"[^>]*>\s*(.+?)\s*</p>'
     bio |->
        <<Lit(Tag.p_bio), Star(WsClass), Open(1), LazyPlus(AnyClass), Close(1),
          Star(WsClass), Lit(Tag.p_close)>>,
     \* r'class="profile-keywords"[^>]*>\s*(.+?)\s*</p>'
     keywords |->
        <<Lit(Tag.p_keywords), Star(WsClass), Open(1), LazyPlus(AnyClass),
          Close(1), Star(WsClass), Lit(Tag.p_close)>>,
     \* r'<!-- Thesis -->.*?<p[^>]*>\s*(.+?)\s*</p>'
     thesis |->
        <<Lit(Tag.thesis_mark), LazyStar(AnyClass), OneOf(POpens),
          Star(WsClass), Open(1), LazyPlus(AnyClass), Close(1), Star(WsClass),
          Lit(Tag.p_close)>>,
     \* r'\s*<br>\s*'
     break |-> <<Star(WsClass), Lit(Tag.br), Star(WsClass)>>,
     \* r'href="([^"]+)"[^>]*title="CV \(PDF\)"'
     cv_pdf |-> <<Lit(Tag.a_cv)>>,
     \* r'<li><a href="([^"]+)">(.+?)</a>\s*<span[^>]*>(.+?)</span></li>'
     publication |->
        <<Lit(Tag.li_open), OneOf(PlainAnchors), Open(2), LazyPlus(DotClass),
          Close(2), Lit(Tag.a_close), Star(WsClass), OneOf(SpanOpens), Open(3),
          LazyPlus(DotClass), Close(3), Lit(Tag.span_close),
          Lit(Tag.li_close)>>]

\* re.sub(pat, repl, text): every match, left to right, replaced by repl
RECURSIVE re_sub_all(_, _, _, _)
re_sub_all(pat, repl, text, pos) ==
    LET m == SearchFrom(pat, text, pos)
    IN  IF ~m.ok THEN SubSeq(text, pos, Len(text))
        ELSE SubSeq(text, pos, m.start - 1) \o repl
                 \o re_sub_all(pat, repl, text, m.end)

\* re.finditer of the publication pattern
RECURSIVE find_publications(_, _)
find_publications(content, pos) ==
    LET m == SearchFrom(Pat.publication, content, pos)
    IN  IF ~m.ok THEN <<>>
        ELSE <<[url    |-> HrefOf(content[m.start + 1]),
                title  |-> Group(content, m, 2),
                source |-> Group(content, m, 3)]>>
                 \o find_publications(content, m.end)

\* the anchors whose href starts with a platform's prefix
PlatformAnchors(platform) ==
    IF platform = "github" THEN {AHref(GITHUB_URL)} ELSE {}

Platforms == {"linkedin", "github", "twitter", "email"}

\* the links found: platform -> href, for the platforms with a match
find_links(content) ==
    LET found == {k \in Platforms :
                      re_search(<<OneOf(PlatformAnchors(k))>>, content).ok}
    IN  [k \in found |->
            HrefOf(content[re_search(<<OneOf(PlatformAnchors(k))>>,
                                     content).start])]

\* r'href="([^"]+)"[^>]*title="CV \(PDF\)"'
find_cv_pdf(content) ==
    IF re_search(Pat.cv_pdf, content).ok THEN CV_PATH ELSE ""

\* _parse_profile, on the text of the layout
parse_profile(content) ==
    [name_primary   |-> extract(Pat.name_primary, content),
     name_secondary |-> extract(Pat.name_secondary, content),
     affiliation    |-> extract(Pat.affiliation, content),
     bio            |-> re_sub_all(Pat.break, <<NL>>,
                                   extract(Pat.bio, content), 1),
     keywords       |-> extract(Pat.keywords, content),
     thesis         |-> extract(Pat.thesis, content),
     cv_pdf         |-> find_cv_pdf(content),
     links          |-> find_links(content),
     recent_publications |-> find_publications(content, 1)]

\* the publication lines of _save_profile
RECURSIVE pubs_html(_)
pubs_html(pubs) ==
    IF pubs = <<>> THEN <<>>
    ELSE LET q == Head(pubs)
         IN  (IF q.url # "" /\ q.title # <<>>
              THEN <<Ind[6], Tag.li_open, AHref(q.url)>> \o q.title
                       \o <<Tag.a_close, " ", Tag.span_muted>> \o q.source
                       \o <<Tag.span_close, Tag.li_close, NL>>
              ELSE <<>>)
                 \o pubs_html(Tail(pubs))

expand_breaks_raw(bio) == bio

\* bio.replace('\n', '<br>\n      ')
RECURSIVE expand_breaks(_)
expand_breaks(bio) ==
    IF bio = <<>> THEN <<>>
    ELSE IF Len(bio) = 1
         THEN (IF bio[1] = NL THEN <<Tag.br, NL, Ind[6]>> ELSE bio)
    ELSE LET mid == Len(bio) \div 2
         IN  expand_breaks(SubSeq(bio, 1, mid))
                 \o expand_breaks(SubSeq(bio, mid + 1, Len(bio)))

lang_switch(lang) ==
    IF lang = "ko"
    THEN <<Ind[2], Tag.lang_mark, NL,
           Ind[2], Tag.div_lang, NL,
           Ind[4], Tag.a_home, "EN", Tag.a_close, NL,
           Ind[4], Tag.span_active, "KR", Tag.span_close, NL,
           Ind[2], Tag.div_close, NL, NL>>
    ELSE <<Ind[2], Tag.lang_mark, NL,
           Ind[2], Tag.div_lang, NL,
           Ind[4], Tag.span_active, "EN", Tag.span_close, NL,
           Ind[4], Tag.a_ko, "KR", Tag.a_close, NL,
           Ind[2], Tag.div_close, NL, NL>>

\* the "latest posts" section of the skeleton
latest_posts ==
    <<Ind[2], Tag.posts_mark, NL,
      Ind[2], Tag.div_section, NL,
      Ind[4], Tag.h2_open, "Latest Posts", Tag.h2_close, NL,
      Ind[4], Tag.ul_open, NL,
      Ind[6], Liquid.assign_posts, NL,
      Ind[6], Liquid.for_posts, NL,
      Ind[8], Tag.li_open, NL,
      Ind[10], AHref(POST_URL), Liquid.post_title, Tag.a_close, NL,
      Ind[10], Tag.span_muted, Liquid.post_date, Tag.span_close, NL,
      Ind[8], Tag.li_close, NL,
      Ind[6], Liquid.endfor, NL,
      Ind[4], Tag.ul_close, NL,
      Ind[4], Tag.a_blog, "See all &rarr;", Tag.a_close, NL,
      Ind[2], Tag.div_close, NL>>

\* the text _save_profile writes for data and lang
render_profile(data, lang) ==
    <<"---", NL, "layout: default", NL, "---", NL, NL, Liquid.include_lang, NL, NL,
      Tag.article, NL>>
    \o lang_switch(lang)
    \o <<Ind[2], Tag.header_mark, NL,
         Ind[2], Tag.div_header, NL,
         Ind[4], Tag.h1_open>>
    \o data.name_primary \o <<" ", Tag.span_name_en, "/", " ">>
    \o data.name_secondary \o <<Tag.span_close, Tag.h1_close, NL,
         Ind[4], Tag.p_affiliation>>
    \o data.affiliation \o <<Tag.p_close, NL,
         Ind[4], Tag.p_bio, NL,
         Ind[6]>>
    \o expand_breaks(data.bio) \o <<NL,
         Ind[4], Tag.p_close, NL,
         Ind[2], Tag.div_close, NL, NL,
         Ind[2], Tag.interests_mark, NL,
         Ind[2], Tag.div_section, NL,
         Ind[4], Tag.h2_open, "Research Interests", Tag.h2_close, NL,
         Ind[4], Tag.p_keywords, NL,
         Ind[6]>>
    \o data.keywords \o <<NL,
         Ind[4], Tag.p_close, NL,
         Ind[2], Tag.div_close, NL, NL,
         Ind[2], Tag.thesis_mark, NL,
         Ind[2], Tag.div_section, NL,
         Ind[4], Tag.h2_open, "Thesis", Tag.h2_close, NL,
         Ind[4], Tag.p_thesis, NL,
         Ind[6]>>
    \o data.thesis \o <<NL,
         Ind[4], Tag.p_close, NL,
         Ind[2], Tag.div_close, NL, NL,
         Ind[2], Tag.pubs_mark, NL,
         Ind[2], Tag.div_section, NL,
         Ind[4], Tag.h2_open, "Recent Publications", Tag.h2_close, NL,
         Ind[4], Tag.ul_open, NL>>
    \o pubs_html(data.recent_publications) \o <<
         Ind[4], Tag.ul_close, NL,
         Ind[4], Tag.a_pubs, "See all &rarr;", Tag.a_close, NL,
         Ind[2], Tag.div_close, NL, NL>>
    \o latest_posts
    \o <<Tag.article_close, NL>>

-----------------------------------------------------------------------------
(* Names of uploaded files.  A filename is a sequence of atoms: a word,    *)
(* ".", "/", " ", "_", a decimal number.                                   *)

ASSETS_DIR == os_path_join(BLOG_ROOT, <<"assets">>)

\* what the upload handlers know about names: the extensions they accept
\* (two of ALLOWED_UPLOAD_EXTENSIONS, one of them of IMAGE_EXTENSIONS), the
\* atoms that are not ASCII (a Hangul syllable, written by its code point),
\* str.lower, str(counter), and the time stamp of datetime.now()
UploadRules ==
    [allowed  |-> { <<"png">>, <<"pdf">> },
     image    |-> { <<"png">> },
     nonascii |-> { "U+D55C" },
     upper    |-> [a \in {"PNG"} |-> "png"],
     decimal  |-> <<"1", "2", "3", "4", "5">>,
     now      |-> "20240103120000"]

\* _ext(filename): filename.rsplit('.', 1)[-1].lower() if '.' in filename
\* else ''
_ext(filename) ==
    LET dots == {i \in DOMAIN filename : filename[i] = "."}
    IN  IF dots = {} THEN <<>>
        ELSE LET last == CHOOSE i \in dots : \A j \in dots : j <= i
                 tail == SubSeq(filename, last + 1, Len(filename))
             IN  [i \in DOMAIN tail |->
                     IF tail[i] \in DOMAIN UploadRules.upper
                     THEN UploadRules.upper[tail[i]] ELSE tail[i]]

\* werkzeug's secure_filename: what is not ASCII is dropped, a separator
\* becomes a blank, the words between blanks are joined with "_", and
\* dots and underscores are stripped from both ends
secure_filename(filename) ==
    LET IsAscii(a) == a \notin UploadRules.nonascii
        ascii  == SelectSeq(filename, IsAscii)
        spaced == [i \in DOMAIN ascii |->
                      IF ascii[i] = Sep THEN " " ELSE ascii[i]]
        \* "_".join(s.split()): the first blank of every run of blanks
        \* that has a word on both sides is kept, as "_"
        keep   == {i \in DOMAIN spaced :
                      \/ spaced[i] # " "
                      \/ /\ i > 1 /\ spaced[i - 1] # " "
                         /\ \E j \in (i + 1)..Len(spaced) : spaced[j] # " "}
        nth(k) == CHOOSE i \in keep : Cardinality({j \in keep : j < i}) = k - 1
        joined == [k \in 1..Cardinality(keep) |->
                      IF spaced[nth(k)] = " " THEN "_" ELSE spaced[nth(k)]]
        inner  == {i \in DOMAIN joined : joined[i] \notin {".", "_"}}
    IN  IF inner = {} THEN <<>>
        ELSE SubSeq(joined,
                    CHOOSE i \in inner : \A j \in inner : i <= j,
                    CHOOSE i \in inner : \A j \in inner : j <= i)

-----------------------------------------------------------------------------
(* The profile handlers.  A client saves a record, reads the profile back, *)
(* saves what it has read and reads again.                                 *)

Langs == {"ko", "en"}

Publications ==
    { <<>>,
      <<[url |-> "u", title |-> <<"T">>, source |-> <<"S">>]>>,
      <<[url |-> GITHUB_URL, title |-> <<"T">>, source |-> <<>>]>> }

LinkSets == { << >>, [k \in {"github"} |-> GITHUB_URL] }

\* the bodies of the PUT requests
ProfileRecords ==
    [name_primary   : {<<>>, <<"N">>},
     name_secondary : {<<>>, <<"M">>},
     affiliation    : {<<>>, <<"F">>},
     bio            : {<<>>, <<"B">>, <<"B", NL, "C">>,
                       <<"B", Tag.br, "C", NL, "D">>},
     keywords       : {<<>>, <<"K">>},
     thesis         : {<<>>, <<"H">>},
     cv_pdf         : {"", CV_PATH},
     links          : LinkSets,
     recent_publications : Publications]

\* the record of the layouts the repository ships with
ShippedRecord ==
    [name_primary   |-> <<"N">>,
     name_secondary |-> <<"M">>,
     affiliation    |-> <<"F">>,
     bio            |-> <<"B">>,
     keywords       |-> <<"K">>,
     thesis         |-> <<"H">>,
     cv_pdf         |-> "",
     links          |-> << >>,
     recent_publications |-> <<>>]

ProfIdle ==
    /\ layout = << >>
    /\ prof = [phase |-> "none"]

\* PUT /api/pages/profile and /api/pages/profile-en: the body is a new
\* record, or the record the client has just read
save_profile_handler(lang) ==
    /\ \/ /\ prof.phase = "idle"
          /\ \E r \in ProfileRecords :
                prof' = [phase |-> "saved", lang |-> lang, sent |-> r,
                         data |-> r, got |-> <<>>]
       \/ /\ prof.phase = "got"
          /\ prof.lang = lang
          /\ Len(prof.got) = 1
          /\ prof' = [prof EXCEPT !.phase = "saved", !.data = prof.got[1]]
    /\ layout' = [layout EXCEPT ![lang] = render_profile(prof'.data, lang)]
    /\ UNCHANGED <<pathVars, postVars, sideVars, assets, upload, git>>

api_save_profile    == save_profile_handler("ko")
api_save_profile_en == save_profile_handler("en")

\* GET /api/pages/profile and /api/pages/profile-en, after a save of that
\* layout or after an upload of the CV
get_profile_handler(lang) ==
    /\ \/ /\ prof.phase = "saved"
          /\ prof.lang = lang
          /\ prof' = [prof EXCEPT !.phase = "got",
                                  !.got = Append(@, parse_profile(layout[lang]))]
       \/ /\ prof.phase = "uploaded"
          /\ prof' = [prof EXCEPT !.phase = "read", !.lang = lang,
                                  !.got = <<parse_profile(layout[lang])>>]
    /\ UNCHANGED <<layout, pathVars, postVars, sideVars, assets, upload, git>>

api_get_profile    == get_profile_handler("ko")
api_get_profile_en == get_profile_handler("en")

\* POST /api/pages/cv/upload: the PDF is stored under assets/docs, cv.md
\* is rewritten, and both layouts are parsed and saved again with the new
\* path as cv_pdf
api_upload_cv ==
    /\ prof.phase = "idle"
    /\ \E has_file \in BOOLEAN,
          filename \in { <<>>, <<"cv", ".", "pdf">>, <<"my", " ", "cv", ".", "PDF">>,
                         <<"U+D55C", ".", "pdf">>, <<"cv", ".", "txt">> } :
        LET secured   == secure_filename(filename)
            safe_name == IF secured # <<>> THEN secured ELSE <<"resume.pdf">>
            dest      == os_path_join(os_path_join(ASSETS_DIR, <<"docs">>),
                                      safe_name)
            RECURSIVE text(_)
            text(atoms) == IF atoms = <<>> THEN ""
                           ELSE Head(atoms) \o text(Tail(atoms))
            rel_path  == text(<<"/">> \o relpath(dest))
            CV_TAB    == os_path_join(BLOG_ROOT, <<"_tabs", "/", "cv.md">>)
            cv_content == [fm |-> [title |-> "CV"],
                           rest |-> <<"\n", "<iframe src=\"", rel_path, "\">",
                                      "\n", "<a href=\"", rel_path, "\">", "\n">>]
        IN  IF ~has_file \/ filename = <<>> \/ _ext(filename) # <<"pdf">>
            THEN \* abort(400)
                 /\ prof' = [prof EXCEPT !.phase = "refused"]
                 /\ UNCHANGED <<layout, files, assets>>
            ELSE /\ assets' = [q \in DOMAIN assets \cup {dest} |->
                                  IF q = dest THEN "pdf" ELSE assets[q]]
                 /\ files' = [q \in DOMAIN files \cup {CV_TAB} |->
                                 IF q = CV_TAB THEN cv_content ELSE files[q]]
                 /\ layout' = [l \in Langs |->
                                  render_profile([parse_profile(layout[l])
                                                     EXCEPT !.cv_pdf = rel_path], l)]
                 /\ prof' = [phase |-> "uploaded", lang |-> "none",
                             sent |-> prof.sent, data |-> prof.data, got |-> <<>>,
                             cv_pdf |-> rel_path,
                             before |-> [l \in Langs |-> parse_profile(layout[l])]]
    /\ UNCHANGED <<pathVars, sideVars, oplog, post_req, post_resp, upload, git>>

InitProfile ==
    /\ layout = [l \in Langs |-> render_profile(ShippedRecord, l)]
    /\ prof = [phase |-> "idle", lang |-> "none", sent |-> ShippedRecord,
               data |-> ShippedRecord, got |-> <<>>]
    /\ sp = SpIdle
    /\ SideIdle
    /\ files = << >>
    /\ oplog = <<>>
    /\ post_req = [op |-> "none"]
    /\ post_resp = [status |-> 0]
    /\ assets = << >> /\ upload = [op |-> "none"] /\ git = [op |-> "none"]

NextProfile ==
    \/ api_upload_cv
    \/ api_save_profile
    \/ api_save_profile_en
    \/ api_get_profile
    \/ api_get_profile_en

SpecProfile == InitProfile /\ [][NextProfile]_vars

\* C8: what a client reads after saving back the record it has read is
\* the record it had read: parse(render(parse(render(r)))) = parse(render(r)),
\* for every record r and both languages.
C8_ParseRenderIdempotent ==
    (prof.phase = "got" /\ Len(prof.got) = 2) => prof.got[2] = prof.got[1]

\* C9: the record a client reads after a save is the record it has saved,
\* on every field.
C9_RecordRoundTrips ==
    (prof.phase = "got" /\ Len(prof.got) >= 1) => prof.got[1] = prof.sent

\* C15: the layout a save has written holds the include directive and
\* the loop of the "latest posts" section, from the assign directive to
\* the endfor, word for word, whatever the record.
C15_ScaffoldingVerbatim ==
    prof.phase \in {"saved", "uploaded"} =>
        \A l \in (IF prof.phase = "saved" THEN {prof.lang} ELSE Langs) :
            /\ Contains(layout[l],
                   <<"---", NL, NL, "{% include lang.html %}", NL, NL>>)
            /\ Contains(layout[l],
                   <<"{% assign recent_posts = site.posts | where_exp: 'item', 'item.hidden != true' %}",
                     NL, "      ",
                     "{% for post in recent_posts limit: 3 %}",
                     NL, "        ", Tag.li_open,
                     NL, "          ",
                     "<a href=\"{{ post.url | relative_url }}\">",
                     "{{ post.title }}", Tag.a_close,
                     NL, "          ", Tag.span_muted,
                     "{{ post.date | date: \"%Y.%m\" }}", Tag.span_close,
                     NL, "        ", Tag.li_close,
                     NL, "      ", "{% endfor %}", NL>>)

\* the English layout has just been written from a record with a bio of
\* two lines and a publication
C15_Witness ==
    /\ prof.phase = "saved" /\ prof.lang = "en"
    /\ prof.data.bio = <<"B", NL, "C">>
    /\ prof.data.recent_publications # <<>>
    /\ Contains(layout["en"], <<"{% for post in recent_posts limit: 3 %}">>)

\* C16: after an upload of the CV, the parse of either layout returns the
\* path of the uploaded file as cv_pdf and every other field as it was
\* parsed before the upload.
C16_CvPathPropagated ==
    prof.phase = "read" =>
        /\ prof.got[1].cv_pdf = prof.cv_pdf
        /\ \A f \in DOMAIN prof.got[1] \ {"cv_pdf"} :
               prof.got[1][f] = prof.before[prof.lang][f]

\* C17, as claimed: a bio of several lines, none of them empty and none
\* with blanks at either end, is rendered with every newline expanded to
\* "<br>", a newline and six blanks, and comes back from the parse of the
\* rendered layout as it was saved, with as many lines.
C17_BioRoundTrips ==
    ( /\ prof.phase = "got" /\ Len(prof.got) = 1
      /\ \E i \in DOMAIN prof.sent.bio : prof.sent.bio[i] = NL
      /\ \A i \in DOMAIN prof.sent.bio :
             /\ prof.sent.bio[i] \notin Whitespace \ {NL}
             /\ prof.sent.bio[i] = NL =>
                    /\ i > 1 /\ i < Len(prof.sent.bio)
                    /\ prof.sent.bio[i - 1] # NL ) =>
        LET bio == prof.sent.bio
            RECURSIVE expanded(_)
            expanded(i) ==
                IF i > Len(bio) THEN <<>>
                ELSE (IF bio[i] = NL THEN <<"<br>", NL, "      ">>
                      ELSE <<bio[i]>>) \o expanded(i + 1)
        IN  /\ Contains(layout[prof.lang],
                   <<NL, "      ">> \o expanded(1) \o <<NL, "    ", Tag.p_close>>)
            /\ prof.got[1].bio = bio

\* C17, amended: the same, for a bio whose lines hold no markup (no tag,
\* in particular no "<br>" and no "</p>" of their own).
C17_PlainBioRoundTrips ==
    (\A i \in DOMAIN prof.sent.bio : prof.sent.bio[i] \notin TagAtoms)
        => C17_BioRoundTrips

\* the bio "B\nC" has been saved and read back, next to fields that are
\* empty
C17_Witness ==
    /\ prof.phase = "got" /\ Len(prof.got) = 1
    /\ prof.sent.bio = <<"B", NL, "C">>
    /\ prof.sent.affiliation = <<>> /\ prof.sent.keywords = <<>>
    /\ prof.got[1].bio = <<"B", NL, "C">>
    /\ Contains(layout[prof.lang], <<"B", Tag.br, NL, "      ", "C">>)

-----------------------------------------------------------------------------
(* The post handlers                                                       *)

\* the date of a create request: absent, or one that climbs out of the
\* target directory
CreateDates == { <<>>, <<".", ".", "/", "_posts", "/", Today>> }

\* the date of an update request
UpdateDates == { <<Today>>, <<".", ".", "/", "_posts", "/", Today>> }

PostSlugs == { <<>>, <<"a">>, <<"b">>, <<" ", "a">>, <<"a", "/">> }

PostData(dates) ==
    [date : dates, slug : PostSlugs, title : {"T"}, tags : {<<"t">>},
     categories : {<<"c">>}, body : {<<"x", "\n">>}, is_draft : BOOLEAN]

\* a draft written by hand, whose name carries a slug the tool would refuse
HandDraft == os_path_join(DRAFTS_DIR, <<Today, "-", "a", " ", "b", ".md">>)

HandText == [fm |-> [title |-> "T", tags |-> <<"t">>], rest |-> <<"\n", "x", "\n">>]

\* the post paths a client sends: the files there are, a missing one and
\* one that leaves the blog
PostPaths ==
    {relpath(p) : p \in DOMAIN files}
        \cup { <<"_posts", "/", "none", ".md">>, <<".", ".", "/", "etc">> }

NoData == [date |-> <<>>, slug |-> <<>>, title |-> "", tags |-> <<>>,
           categories |-> <<>>, body |-> <<>>, is_draft |-> FALSE]

NoReq == [op |-> "none", original_path |-> <<>>, data |-> NoData,
          in_save |-> FALSE, before |-> << >>]

NoResp == [status |-> 0, path |-> <<>>]

\* no request is being handled
PostIdle == post_req.op = "none"

\* a handler that stops before save_post: abort(403) or abort(404)
Aborted(op, post_path, status) ==
    /\ post_req' = [op |-> op, original_path |-> post_path, data |-> NoData,
                    in_save |-> FALSE, before |-> files]
    /\ post_resp' = [status |-> status, path |-> <<>>]
    /\ oplog' = <<>>
    /\ UNCHANGED files

\* a handler that reaches save_post
Saved(op, post_path, data, io_ok, ok_status) ==
    LET r == save_post(data, post_path, files, io_ok)
    IN  /\ post_req' = [op |-> op, original_path |-> post_path, data |-> data,
                        in_save |-> TRUE, before |-> files]
        /\ post_resp' = [status |-> IF r.status = 200 THEN ok_status ELSE r.status,
                         path |-> r.path]
        /\ oplog' = r.log
        /\ files' = r.fs

\* the checks every handler on an existing post starts with
Guard(post_path) ==
    IF safe_path(post_path, BLOG_ROOT).status = 403 THEN 403
    ELSE IF ~isfile(os_path_join(BLOG_ROOT, post_path)) THEN 404
    ELSE 200

\* POST /api/posts
api_create_post ==
    /\ PostIdle
    /\ \E data \in PostData(CreateDates), io_ok \in BOOLEAN :
        LET d == IF data.date = <<>> THEN [data EXCEPT !.date = <<Today>>]
                 ELSE data
        IN  /\ Saved("create", <<>>, d, io_ok, 201)
            /\ UNCHANGED <<pathVars, sideVars, profVars, assets, upload, git>>

\* PUT /api/posts/<path>
api_update_post ==
    /\ PostIdle
    /\ \E post_path \in PostPaths :
        /\ IF Guard(post_path) # 200
           THEN Aborted("update", post_path, Guard(post_path))
           ELSE \E data \in PostData(UpdateDates), io_ok \in BOOLEAN :
                    Saved("update", post_path, data, io_ok, 200)
        /\ UNCHANGED <<pathVars, sideVars, profVars, assets, upload, git>>

\* DELETE /api/posts/<path>
api_delete_post ==
    /\ PostIdle
    /\ \E post_path \in PostPaths :
        /\ IF Guard(post_path) # 200
           THEN Aborted("delete", post_path, Guard(post_path))
           ELSE LET abs_path == safe_path(post_path, BLOG_ROOT).path
                IN  /\ files' = [q \in DOMAIN files \ {abs_path} |-> files[q]]
                    /\ oplog' = <<[op |-> "remove", path |-> abs_path]>>
                    /\ post_req' = [op |-> "delete", original_path |-> post_path,
                                    data |-> NoData, in_save |-> FALSE,
                                    before |-> files]
                    /\ post_resp' = [status |-> 200, path |-> <<>>]
        /\ UNCHANGED <<pathVars, sideVars, profVars, assets, upload, git>>

\* POST /api/posts/<path>/publish
api_publish_post ==
    /\ PostIdle
    /\ \E post_path \in PostPaths :
        /\ IF Guard(post_path) # 200
           THEN Aborted("publish", post_path, Guard(post_path))
           ELSE LET abs_path == safe_path(post_path, BLOG_ROOT).path
                    data     == [parse_post(abs_path) EXCEPT !.is_draft = FALSE]
                IN  \E io_ok \in BOOLEAN :
                        Saved("publish", post_path, data, io_ok, 200)
        /\ UNCHANGED <<pathVars, sideVars, profVars, assets, upload, git>>

\* POST /api/posts/<path>/unpublish
api_unpublish_post ==
    /\ PostIdle
    /\ \E post_path \in PostPaths :
        /\ IF Guard(post_path) # 200
           THEN Aborted("unpublish", post_path, Guard(post_path))
           ELSE LET abs_path == safe_path(post_path, BLOG_ROOT).path
                    data     == [parse_post(abs_path) EXCEPT !.is_draft = TRUE]
                IN  \E io_ok \in BOOLEAN :
                        Saved("unpublish", post_path, data, io_ok, 200)
        /\ UNCHANGED <<pathVars, sideVars, profVars, assets, upload, git>>

InitPosts ==
    /\ files = (HandDraft :> HandText)
    /\ oplog = <<>>
    /\ post_req = NoReq
    /\ post_resp = NoResp

Init ==
    /\ InitPosts /\ sp = SpIdle /\ SideIdle /\ ProfIdle
    /\ assets = << >> /\ upload = [op |-> "none"] /\ git = [op |-> "none"]

\* the response is sent; nothing of the request is kept in memory
PostRespond ==
    /\ ~PostIdle
    /\ post_req' = NoReq
    /\ post_resp' = NoResp
    /\ oplog' = <<>>
    /\ UNCHANGED <<files, pathVars, sideVars, profVars, assets, upload, git>>

Next ==
    \/ PostRespond
    \/ api_create_post
    \/ api_update_post
    \/ api_delete_post
    \/ api_publish_post
    \/ api_unpublish_post

Spec == Init /\ [][Next]_vars

-----------------------------------------------------------------------------
(* Claims on save_post                                                     *)

\* the old file of the request being answered
OldFile == realpath(os_path_join(BLOG_ROOT, post_req.original_path))

\* C1: in a save with an original_path the old file is removed only after
\* the destination was written, so a failed write leaves the old file.
C1_RemoveAfterWrite ==
    (post_req.in_save /\ post_req.original_path # <<>>) =>
        /\ \A i \in DOMAIN oplog :
               oplog[i].op = "remove" =>
                   \E j \in 1..(i - 1) : oplog[j].op = "write"
        /\ (\E i \in DOMAIN oplog : oplog[i].op = "write_failed") =>
               OldFile \in DOMAIN files

\* the slug is empty or has a character outside [A-Za-z0-9_-]
Malformed(slug) ==
    slug = <<>> \/ \E i \in DOMAIN slug : slug[i] \notin SlugChars

\* C2 as stated: a slug that is empty or does not match the pattern is
\* refused with 400 and the files stay as they were.
C2_RawSlugRefused ==
    (post_req.in_save /\ Malformed(post_req.data.slug)) =>
        /\ post_resp.status = 400
        /\ files = post_req.before

\* C2 amended: a slug that, once stripped of surrounding whitespace, is empty
\* or does not match the pattern is refused with 400 and no file is written
\* or deleted, with or without an original_path.
C2_StrippedSlugRefused ==
    (post_req.in_save /\ Malformed(strip(post_req.data.slug))) =>
        /\ post_resp.status = 400
        /\ oplog = <<>>
        /\ files = post_req.before

\* publishing a draft whose file name carries a malformed slug is refused
C2_Witness ==
    /\ post_req.in_save
    /\ post_req.op = "publish"
    /\ post_req.original_path # <<>>
    /\ post_req.data.slug # <<>>
    /\ Malformed(strip(post_req.data.slug))
    /\ post_resp.status = 400
    /\ files = post_req.before

\* C4: a save that succeeds writes a direct child of the drafts directory
\* when is_draft is true and of the posts directory when it is false.
C4_DirectoryFromIsDraft ==
    (post_req.in_save /\ post_resp.status \in {200, 201}) =>
        LET written == os_path_join(BLOG_ROOT, post_resp.path)
        IN  /\ written \in DOMAIN files
            /\ dirname(written) =
                   IF post_req.data.is_draft THEN DRAFTS_DIR ELSE POSTS_DIR

\* C18: a publish or an unpublish of a document named
\* YYYY-MM-DD-<valid slug>.md that has no namesake in the other directory
\* leaves exactly one of _posts/<name> and _drafts/<name>, in _posts after
\* a publish and in _drafts after an unpublish, with the title, the tags
\* and the categories it had.  (No namesake afterwards again: the property
\* carries over every sequence of the two operations.)
C18_ExactlyOnePlace ==
    ( /\ post_req.op \in {"publish", "unpublish"} /\ post_req.in_save
      /\ LET name == basename(OldFile)
         IN  /\ Len(name) >= 4 /\ name[1] \in DateAtoms /\ name[2] = "-"
             /\ name[Len(name)] = ".md"
             /\ ~Malformed(SubSeq(name, 3, Len(name) - 1))
             /\ OldFile \in {os_path_join(POSTS_DIR, name),
                              os_path_join(DRAFTS_DIR, name)}
             /\ Cardinality({os_path_join(POSTS_DIR, name),
                              os_path_join(DRAFTS_DIR, name)}
                                \cap DOMAIN post_req.before) = 1 ) =>
        LET name   == basename(OldFile)
            posts  == os_path_join(POSTS_DIR, name)
            drafts == os_path_join(DRAFTS_DIR, name)
            place  == IF post_req.op = "publish" THEN posts ELSE drafts
            meta(text, k, d) == MetaGet(frontmatter_loads(text).metadata, k, d)
        IN  /\ {posts, drafts} \cap DOMAIN files = {place}
            /\ \A q \in DOMAIN post_req.before \ {posts, drafts} :
                   q \in DOMAIN files /\ files[q] = post_req.before[q]
            /\ DOMAIN files \ {posts, drafts} \subseteq DOMAIN post_req.before
            /\ meta(files[place], "title", "")
                   = meta(post_req.before[OldFile], "title", "")
            /\ meta(files[place], "tags", <<>>)
                   = meta(post_req.before[OldFile], "tags", <<>>)
            /\ meta(files[place], "categories", <<>>)
                   = meta(post_req.before[OldFile], "categories", <<>>)
            /\ (OldFile = place) => files[place] = post_req.before[place]

-----------------------------------------------------------------------------
(* Encoding and decoding a document: a client creates a post and reads it  *)
(* back through GET /api/posts/<path>.                                     *)

MaxBodyLen == 3

BodyChars == {"x", " ", NL}

\* the requests with valid fields, and every body of up to MaxBodyLen atoms
CodecData ==
    [date : {<<Today>>}, slug : {<<"a">>}, title : {"T"},
     tags : {<<>>, <<"t">>, <<"t", "u">>}, categories : {<<>>, <<"c">>},
     body : SeqsUpTo(BodyChars, MaxBodyLen), is_draft : BOOLEAN]

\* POST /api/posts with a body of CodecData, on a disk that takes the write
create_post_valid ==
    /\ PostIdle
    /\ \E data \in CodecData : Saved("create", <<>>, data, TRUE, 201)
    /\ UNCHANGED <<pathVars, sideVars, profVars, assets, upload, git>>

\* GET /api/posts/<path>, for the path the creation has returned
api_get_post ==
    /\ post_req.op = "create"
    /\ post_resp.status = 201
    /\ LET post_path == post_resp.path
           abs_path  == safe_path(post_path, BLOG_ROOT)
       IN  /\ post_req' = [post_req EXCEPT !.op = "get"]
           /\ post_resp' =
                 IF abs_path.status = 403 THEN [status |-> 403, path |-> post_path]
                 ELSE IF ~isfile(abs_path.path)
                 THEN [status |-> 404, path |-> post_path]
                 ELSE [status |-> 200, path |-> post_path,
                       post |-> parse_post(abs_path.path)]
    /\ UNCHANGED <<files, oplog, pathVars, sideVars, profVars, assets, upload, git>>

InitCodec ==
    /\ files = << >>
    /\ oplog = <<>>
    /\ post_req = NoReq
    /\ post_resp = NoResp
    /\ sp = SpIdle
    /\ SideIdle
    /\ ProfIdle
    /\ assets = << >> /\ upload = [op |-> "none"] /\ git = [op |-> "none"]

NextCodec ==
    \/ create_post_valid
    \/ api_get_post

SpecCodec == InitCodec /\ [][NextCodec]_vars

\* the document read back for the request that created it
Decoded == post_req.op = "get" /\ post_resp.status = 200

\* tags and categories come back as sent; empty ones come back as empty lists
ListsReproduced ==
    /\ post_resp.post.tags = post_req.data.tags
    /\ post_resp.post.categories = post_req.data.categories

\* C10 as stated: decoding what save_post encoded gives the body exactly,
\* and the tags and categories (empty lists when they were empty).
C10_BodyExact ==
    Decoded => /\ post_resp.post.body = post_req.data.body
               /\ ListsReproduced

-----------------------------------------------------------------------------
(* Asset upload: api_upload_asset                                          *)

MaxAssets == 3

\* os.path.splitext(name): the extension starts at the last dot that has
\* something other than dots before it
splitext(name) ==
    LET dots == {i \in DOMAIN name :
                    name[i] = "." /\ \E j \in 1..(i - 1) : name[j] # "."}
    IN  IF dots = {} THEN [base |-> name, ext_part |-> <<>>]
        ELSE LET last == CHOOSE i \in dots : \A j \in dots : j <= i
             IN  [base |-> SubSeq(name, 1, last - 1),
                  ext_part |-> SubSeq(name, last, Len(name))]

free_dest_overwrite(dest_dir, safe_name, fs) == os_path_join(dest_dir, safe_name)

\* the collision loop: dest, or the first of base_1, base_2, ... that does
\* not exist (os.path.exists: a file, or a directory that holds one)
free_dest(dest_dir, safe_name, fs) ==
    LET path_exists(p, f) ==
            \/ p \in DOMAIN f
            \/ \E q \in DOMAIN f : StartsWith(q, p \o <<Sep>>)
        dest == os_path_join(dest_dir, safe_name)
        se   == splitext(safe_name)
        numbered(counter) ==
            os_path_join(dest_dir,
                se.base \o <<"_", UploadRules.decimal[counter]>> \o se.ext_part)
    IN  IF ~path_exists(dest, fs) THEN dest
        ELSE numbered(CHOOSE c \in DOMAIN UploadRules.decimal :
                          /\ ~path_exists(numbered(c), fs)
                          /\ \A b \in 1..(c - 1) : path_exists(numbered(b), fs))

\* POST /api/assets/upload, with a file (or none), its filename, its
\* content, and the subdir query parameter (<<>>: none)
api_upload_asset ==
    /\ upload.op = "none"
    /\ Cardinality(DOMAIN assets) < MaxAssets
    /\ \E in \in [filename : { <<>>,
                                <<"photo", ".", "png">>,
                                <<"photo", ".", "PNG">>,
                                <<"photo", "_", "1", ".", "png">>,
                                <<".", ".", "/", "photo", ".", "png">>,
                                <<"U+D55C", ".", "png">>,
                                <<"photo">>,
                                <<"x", ".", "exe">> },
                   subdir   : { <<>>, <<"docs">>, <<".", ".">> },
                   content  : {"c1", "c2"},
                   has_file : BOOLEAN] :
        LET ext       == _ext(in.filename)
            subdir    == IF in.subdir # <<>> THEN in.subdir
                         ELSE IF ext \in UploadRules.image THEN <<"img">>
                         ELSE <<"docs">>
            secured   == secure_filename(in.filename)
            safe_name == IF secured # <<>> THEN secured
                         ELSE <<"upload_", UploadRules.now, ".">> \o ext
            dest_dir  == safe_path(subdir, ASSETS_DIR)
            dest      == free_dest(dest_dir.path, safe_name, assets)
            status    == IF ~in.has_file \/ in.filename = <<>> THEN 400
                         ELSE IF ext \notin UploadRules.allowed THEN 400
                         ELSE dest_dir.status
        IN  /\ upload' = [op |-> "upload", in |-> in, status |-> status,
                          safe_name |-> safe_name,
                          dest_dir |-> dest_dir.path,
                          dest |-> IF status = 200 THEN dest ELSE <<>>,
                          before |-> assets]
            /\ assets' = IF status = 200
                         THEN [q \in DOMAIN assets \cup {dest} |->
                                  IF q = dest THEN in.content ELSE assets[q]]
                         ELSE assets
    /\ UNCHANGED <<pathVars, postVars, sideVars, profVars, git>>

\* the response of an upload or of a commit-and-push is sent; nothing of
\* the request is kept
ToolRespond ==
    /\ upload.op # "none" \/ git.op # "none"
    /\ upload' = [op |-> "none"]
    /\ git' = [k \in DOMAIN git \cap {"op", "repo"} |->
                 IF k = "op" THEN "none" ELSE git[k]]
    /\ UNCHANGED <<pathVars, postVars, sideVars, profVars, assets>>

SpecAssets ==
    /\ assets = << >> /\ upload = [op |-> "none"] /\ git = [op |-> "none"]
    /\ sp = SpIdle
    /\ config_yml = <<>> /\ contact_yml = <<>> /\ side_req = [op |-> "none"]
    /\ layout = << >> /\ prof = [phase |-> "none"]
    /\ files = << >> /\ oplog = <<>>
    /\ post_req = [op |-> "none"] /\ post_resp = [status |-> 0]
    /\ [][api_upload_asset \/ ToolRespond]_vars

\* C11: an upload that is stored never overwrites: every file there was
\* keeps its content, and the stored name is the first free one among
\* name, base_1 + ext, base_2 + ext, ... in the destination directory.
C11_FirstFreeName ==
    (upload.op = "upload" /\ upload.status = 200) =>
        LET se == splitext(upload.safe_name)
            there(p) ==
                \/ p \in DOMAIN upload.before
                \/ \E q \in DOMAIN upload.before : StartsWith(q, p \o <<Sep>>)
            candidate(k) ==
                os_path_join(upload.dest_dir,
                    IF k = 0 THEN upload.safe_name
                    ELSE se.base \o <<"_", UploadRules.decimal[k]>>
                             \o se.ext_part)
        IN  /\ \A p \in DOMAIN upload.before :
                   p \in DOMAIN assets /\ assets[p] = upload.before[p]
            /\ DOMAIN assets = DOMAIN upload.before \cup {upload.dest}
            /\ assets[upload.dest] = upload.in.content
            /\ \E k \in 0..MaxAssets :
                   /\ upload.dest = candidate(k)
                   /\ ~there(upload.dest)
                   /\ \A j \in 0..(k - 1) : there(candidate(j))

\* photo.png has been uploaded three times: photo.png, photo_1.png and
\* photo_2.png are there, the last one just stored, the first two with
\* the contents they were uploaded with
C11_Witness ==
    LET img(name) == os_path_join(os_path_join(ASSETS_DIR, <<"img">>), name)
    IN  /\ upload.op = "upload" /\ upload.status = 200
        /\ upload.in.filename = <<"photo", ".", "png">>
        /\ upload.dest = img(<<"photo", "_", "2", ".", "png">>)
        /\ DOMAIN upload.before =
               {img(<<"photo", ".", "png">>), img(<<"photo", "_", "1", ".", "png">>)}
        /\ upload.before[img(<<"photo", ".", "png">>)] = "c1"
        /\ upload.before[img(<<"photo", "_", "1", ".", "png">>)] = "c2"
        /\ upload.in.content = "c1"

-----------------------------------------------------------------------------
(* Commit and push: git_run, git_commit_and_push, api_git_commit_push.     *)
(* The repository is a working tree (the changed paths git does not have   *)
(* staged), the index (the staged paths), the commits of the current       *)
(* branch and those of origin/main.  Whether a git command exits 0, exits  *)
(* non-zero or runs into the timeout of git_run is the environment's       *)
(* choice.                                                                 *)

GitRules_other ==
    [files    |-> << <<"README.md">>,
                     <<"_drafts", "/", "b.md">>,
                     <<"_posts", "/", "a.md">>,
                     <<"_posts", "/", "sub", "/", "d.md">>,
                     <<"_posts_old", "/", "e.md">>,
                     <<"assets", "/", "img", "/", "c.png">>,
                     <<"x", "/", "_posts", "/", "f.md">> >>,
     labels   |-> << [dir |-> "_posts", label |-> "draft: "],
                     [dir |-> "_drafts", label |-> "post: "] >>,
     shown    |-> 4,
     answered |-> {"success", "nothing"}]

\* what commit-and-push works with: the paths that can have changed, in
\* the order git lists them; the labels of the message entries, in the
\* order the code tests the prefixes; the number of entries shown; the
\* outcomes api_git_commit_push answers with 200
GitRules ==
    [files    |-> << <<"README.md">>,
                     <<"_drafts", "/", "b.md">>,
                     <<"_posts", "/", "a.md">>,
                     <<"_posts", "/", "sub", "/", "d.md">>,
                     <<"_posts_old", "/", "e.md">>,
                     <<"assets", "/", "img", "/", "c.png">>,
                     <<"x", "/", "_posts", "/", "f.md">> >>,
     labels   |-> << [dir |-> "_posts", label |-> "post: "],
                     [dir |-> "_drafts", label |-> "draft: "],
                     [dir |-> "assets", label |-> "asset: "] >>,
     shown    |-> 5,
     answered |-> {"success", "nothing", "push_failed"}]

\* git_run(args) in a repository: exit code, stdout, and the repository
\* afterwards; code -1 stands for subprocess.TimeoutExpired, which git_run
\* does not catch (the command is killed and has changed nothing)
git_run(args, repo, end) ==
    LET ok     == end = "zero"
        failed == [code |-> IF end = "timeout" THEN 0 - 1 ELSE 1, out |-> <<>>,
                   repo |-> repo]
        InIndex(f) ==
            \/ \E i \in DOMAIN repo.staged : repo.staged[i] = f
            \/ \E i \in DOMAIN repo.worktree : repo.worktree[i] = f
    IN  CASE args[1] = "add" ->
                IF ~ok THEN failed
                ELSE [code |-> 0, out |-> <<>>,
                      repo |-> [repo EXCEPT !.staged = SelectSeq(GitRules.files, InIndex),
                                            !.worktree = <<>>]]
          [] args[1] = "diff" ->
                IF ~ok THEN failed
                ELSE [code |-> 0, out |-> repo.staged, repo |-> repo]
          [] args[1] = "commit" ->
                \* git refuses a commit with nothing staged or with a
                \* message that is blank
                IF ~ok \/ repo.staged = <<>> \/ strip(args[3]) = <<>> THEN failed
                ELSE [code |-> 0, out |-> <<>>,
                      repo |-> [repo EXCEPT
                                   !.history = Append(@, [message |-> args[3],
                                                          files |-> repo.staged]),
                                   !.staged = <<>>]]
          [] args[1] = "rev-parse" ->
                IF ~ok THEN failed
                ELSE [code |-> 0, out |-> <<Len(repo.history)>>, repo |-> repo]
          [] args[1] = "branch" ->
                IF ~ok THEN failed
                ELSE [code |-> 0, out |-> <<repo.branch>>, repo |-> repo]
          [] args[1] = "push" ->
                IF ~ok THEN failed
                ELSE [code |-> 0, out |-> <<>>,
                      repo |-> IF args[3][1] = repo.branch
                               THEN [repo EXCEPT !.remote = repo.history]
                               ELSE repo]

\* the message git_commit_and_push makes up from the staged paths
auto_message(staged) ==
    LET labels == GitRules.labels
        hits(f) == {k \in DOMAIN labels : StartsWith(f, <<labels[k].dir, "/">>)}
        part(f) == IF hits(f) = {} THEN basename(f)
                   ELSE <<labels[CHOOSE k \in hits(f) :
                                    \A j \in hits(f) : k <= j].label>>
                            \o basename(f)
        shown == IF Len(staged) > GitRules.shown THEN GitRules.shown
                 ELSE Len(staged)
        parts == [i \in 1..shown |-> part(staged[i])]
                     \o (IF Len(staged) > GitRules.shown
                         THEN << <<"...and ",
                                   UploadRules.decimal[Len(staged) - GitRules.shown],
                                   " more">> >>
                         ELSE <<>>)
        RECURSIVE join(_)
        join(i) == IF i > Len(parts) THEN <<>>
                   ELSE (IF i > 1 THEN <<", ">> ELSE <<>>) \o parts[i]
                            \o join(i + 1)
    IN  <<"Update: ">> \o join(1)

nothing_staged_never(diff_out) == FALSE

\* not diff_out.strip()
nothing_staged(diff_out) == diff_out = <<>>

\* git_commit_and_push(message): the result, the commands run with their
\* exit codes, and the repository afterwards
git_commit_and_push(message, repo0, end) ==
    LET add    == git_run(<<"add", "-A">>, repo0, end["add"])
        diff   == git_run(<<"diff", "--cached", "--name-only">>, add.repo,
                          end["diff"])
        msg    == IF ~message.given \/ message.text = <<>>
                  THEN auto_message(diff.out) ELSE message.text
        commit == git_run(<<"commit", "-m", msg>>, diff.repo, end["commit"])
        hash   == git_run(<<"rev-parse", "--short", "HEAD">>, commit.repo,
                          end["rev-parse"])
        branch == git_run(<<"branch", "--show-current">>, hash.repo,
                          end["branch"])
        local_branch == IF branch.out = <<>> THEN "main" ELSE branch.out[1]
        push   == git_run(<<"push", "origin", <<local_branch, ":main">>>>,
                          branch.repo, end["push"])
        ran(c, r) == [cmd |-> c, code |-> r.code]
        all    == <<ran("add", add), ran("diff", diff), ran("commit", commit),
                    ran("rev-parse", hash), ran("branch", branch),
                    ran("push", push)>>
        raised(n, r) == [result |-> [status |-> "raised"],
                         cmds |-> SubSeq(all, 1, n), repo |-> r.repo]
    IN  IF add.code < 0 THEN raised(1, add)
        ELSE IF add.code # 0
        THEN [result |-> [status |-> "error", detail |-> "git add failed"],
              cmds |-> SubSeq(all, 1, 1), repo |-> add.repo]
        ELSE IF diff.code < 0 THEN raised(2, diff)
        ELSE IF nothing_staged(diff.out)
        THEN [result |-> [status |-> "nothing", detail |-> "No changes to commit"],
              cmds |-> SubSeq(all, 1, 2), repo |-> diff.repo]
        ELSE IF commit.code < 0 THEN raised(3, commit)
        ELSE IF commit.code # 0
        THEN [result |-> [status |-> "error", detail |-> "git commit failed"],
              cmds |-> SubSeq(all, 1, 3), repo |-> commit.repo]
        ELSE IF hash.code < 0 THEN raised(4, hash)
        ELSE IF branch.code < 0 THEN raised(5, branch)
        ELSE IF push.code < 0 THEN raised(6, push)
        ELSE [result |-> [status |-> IF push.code = 0 THEN "success"
                                     ELSE "push_failed",
                          commit_hash |-> hash.out,
                          message |-> msg],
              cmds |-> all, repo |-> push.repo]

\* POST /api/git/commit-push, with the message of the body (absent,
\* empty, blank or a text) and, for each git command, the way it ends
api_git_commit_push ==
    /\ git.op = "none"
    /\ \E in \in [message : { [given |-> FALSE, text |-> <<>>],
                              [given |-> TRUE, text |-> <<>>],
                              [given |-> TRUE, text |-> <<" ">>],
                              [given |-> TRUE, text |-> <<"m">>] },
                   end : [{"add", "diff", "commit", "rev-parse", "branch", "push"}
                              -> {"zero", "nonzero", "timeout"}]] :
        LET r == git_commit_and_push(in.message, git.repo, in.end)
        IN  git' = [op |-> "commit_push", message |-> in.message, before |-> git.repo,
                    repo |-> r.repo, cmds |-> r.cmds, result |-> r.result,
                    http |-> IF r.result.status \in GitRules.answered
                             THEN 200 ELSE 500]
    /\ UNCHANGED <<pathVars, postVars, sideVars, profVars, assets, upload>>

\* the repository when the tool starts: some paths changed, nothing staged
SpecGit ==
    /\ \E i \in 1..(Len(GitRules.files) + 1), j \in 0..Len(GitRules.files),
          b \in {"main", "dev"} :
           git = [op |-> "none",
                  repo |-> [worktree |-> SubSeq(GitRules.files, i, j),
                            staged |-> <<>>, history |-> <<>>,
                            remote |-> <<>>, branch |-> b]]
    /\ assets = << >> /\ upload = [op |-> "none"]
    /\ sp = SpIdle
    /\ config_yml = <<>> /\ contact_yml = <<>> /\ side_req = [op |-> "none"]
    /\ layout = << >> /\ prof = [phase |-> "none"]
    /\ files = << >> /\ oplog = <<>>
    /\ post_req = [op |-> "none"] /\ post_resp = [status |-> 0]
    /\ [][api_git_commit_push \/ ToolRespond]_vars

\* C12: with nothing changed and nothing staged, once "git add -A" has
\* exited 0 and the staged diff has been read, the outcome is "nothing", neither commit nor push is run, and the
\* commits of the branch and of the remote are as they were.
C12_EmptyTreeNothing ==
    ( /\ git.op = "commit_push"
      /\ git.before.worktree = <<>> /\ git.before.staged = <<>>
      /\ git.cmds[1].code = 0
      /\ Len(git.cmds) >= 2 /\ git.cmds[2].code >= 0 ) =>
        /\ git.result.status = "nothing"
        /\ \A i \in DOMAIN git.cmds : git.cmds[i].cmd \notin {"commit", "push"}
        /\ git.repo.history = git.before.history
        /\ git.repo.remote = git.before.remote

\* a second request right after a commit that was pushed: nothing is left
\* to commit
C12_Witness ==
    /\ git.op = "commit_push"
    /\ git.before.worktree = <<>> /\ git.before.staged = <<>>
    /\ Len(git.before.history) = 1 /\ git.before.remote = git.before.history
    /\ git.cmds[1].code = 0
    /\ git.result.status = "nothing"

\* C13: the message of a commit that was made is the supplied one when the
\* request carries a message (one that is not empty), and otherwise
\* "Update: " and the entries of the first five staged paths joined with
\* ", ", with a last entry "...and N more" exactly when more than five
\* paths are staged.
C13_AutoMessage ==
    (git.op = "commit_push" /\ git.result.status \in {"success", "push_failed"}) =>
        LET made   == git.repo.history[Len(git.repo.history)]
            staged == made.files
            Entry  == (<<"README.md">> :> <<"README.md">>)
                   @@ (<<"_drafts", "/", "b.md">> :> <<"draft: ", "b.md">>)
                   @@ (<<"_posts", "/", "a.md">> :> <<"post: ", "a.md">>)
                   @@ (<<"_posts", "/", "sub", "/", "d.md">> :> <<"post: ", "d.md">>)
                   @@ (<<"_posts_old", "/", "e.md">> :> <<"e.md">>)
                   @@ (<<"assets", "/", "img", "/", "c.png">> :> <<"asset: ", "c.png">>)
                   @@ (<<"x", "/", "_posts", "/", "f.md">> :> <<"f.md">>)
            More   == <<"...and ", (<<"1", "2", "3">>)[Len(staged) - 5], " more">>
            RECURSIVE entries(_)
            entries(i) ==
                IF i > Len(staged) \/ i > 5
                THEN (IF Len(staged) > 5 THEN <<", ">> \o More ELSE <<>>)
                ELSE (IF i > 1 THEN <<", ">> ELSE <<>>) \o Entry[staged[i]]
                         \o entries(i + 1)
            expected == IF git.message.given /\ git.message.text # <<>>
                        THEN git.message.text
                        ELSE <<"Update: ">> \o entries(1)
        IN  /\ made.message = expected
            /\ git.result.message = expected

\* seven paths were staged and no message came with the request
C13_Witness ==
    /\ git.op = "commit_push" /\ git.result.status = "success"
    /\ ~git.message.given
    /\ Len(git.repo.history[Len(git.repo.history)].files) = 7
    /\ git.result.message =
           <<"Update: ", "README.md", ", ", "draft: ", "b.md", ", ",
             "post: ", "a.md", ", ", "post: ", "d.md", ", ", "e.md", ", ",
             "...and ", "2", " more">>

\* C14: when the commit is made and the push fails, the outcome is
\* push_failed with the hash read from HEAD and the message of the
\* commit, the commit stays, only the six commands of the handler are
\* run, and the answer is 200; when add or commit exits non-zero the
\* outcome is error and the answer is 500.
C14_PushFailureReported ==
    git.op = "commit_push" =>
        LET n == Len(git.cmds)
            code(c) == IF \E i \in 1..n : git.cmds[i].cmd = c
                       THEN git.cmds[CHOOSE i \in 1..n : git.cmds[i].cmd = c].code
                       ELSE 2
        IN  /\ (code("commit") = 0 /\ code("push") = 1) =>
                  /\ git.result.status = "push_failed"
                  /\ git.http = 200
                  /\ Len(git.repo.history) = Len(git.before.history) + 1
                  /\ SubSeq(git.repo.history, 1, Len(git.before.history))
                         = git.before.history
                  /\ git.result.message
                         = git.repo.history[Len(git.repo.history)].message
                  /\ code("rev-parse") = 0 =>
                         git.result.commit_hash = <<Len(git.repo.history)>>
                  /\ \A i \in 1..n : git.cmds[i].cmd \notin {"reset", "revert"}
            /\ (code("add") = 1 \/ code("commit") = 1) =>
                  /\ git.result.status = "error"
                  /\ git.http = 500

\* the commit was made and its hash read, the push failed: the remote is
\* behind by that commit
C14_Witness ==
    /\ git.op = "commit_push"
    /\ git.result.status = "push_failed" /\ git.http = 200
    /\ Len(git.repo.history) = 1 /\ git.repo.remote = <<>>
    /\ git.result.commit_hash = <<1>>
    /\ git.cmds[6] = [cmd |-> "push", code |-> 1]

\* C19: the commands run are a prefix of add, diff, commit, rev-parse,
\* branch, push; nothing follows an add or a commit that exits non-zero;
\* commit is run only after an add that exited 0 and a staged diff that
\* lists something; push is run only after a commit that exited 0.
C19_CommandOrder ==
    git.op = "commit_push" =>
        LET order == <<"add", "diff", "commit", "rev-parse", "branch", "push">>
            n == Len(git.cmds)
        IN  /\ n \in 1..6
            /\ \A i \in 1..n : git.cmds[i].cmd = order[i]
            /\ git.cmds[1].code # 0 => n = 1
            /\ (n >= 3 /\ git.cmds[3].code # 0) => n = 3
            /\ n >= 3 =>
                  /\ git.cmds[1].code = 0
                  /\ git.cmds[2].code = 0
                  /\ git.repo.staged \o git.repo.history # <<>>
                  /\ git.before.worktree \o git.before.staged # <<>>
            /\ n >= 6 => git.cmds[3].code = 0
            /\ (\A i \in 1..n : git.cmds[i].code >= 0) => n \in {1, 2, 3, 6}

\* all six commands have run, in order, each with exit code 0
C19_Witness ==
    /\ git.op = "commit_push"
    /\ git.cmds = [i \in 1..6 |->
                      [cmd |-> <<"add", "diff", "commit", "rev-parse",
                                 "branch", "push">>[i],
                       code |-> 0]]
    /\ git.repo.remote = git.repo.history

====
